---------------------------- MODULE Spec2Model ----------------------------
(***************************************************************************)
(* Model of visualize_tree_as_sunburst (src/tree_to_sunburst.py): the      *)
(* single scan over the node array of a fitted decision tree that builds   *)
(* the parent/id/name/value/colour records handed to plotly's sunburst.    *)
(*                                                                         *)
(* Representation choices.                                                 *)
(*  - tree_node_structure is a sequence of node records; the Python index  *)
(*    i is element i + 1 of the sequence.                                  *)
(*  - A threshold is a float64.  The model holds it as an integer number   *)
(*    of eighths (t stands for t / 8), which float64 represents exactly,   *)
(*    so that '{:.2f}' has real rounding work to do (1/8 = 0.125).         *)
(*  - Python dicts are functions with a finite domain.                     *)
(*  - Strings stay below the 256 characters of the 'U256' fields and       *)
(*    sample counts below 2^31 ('i' field), so the structured array        *)
(*    stores them unchanged.                                               *)
(***************************************************************************)
EXTENDS Integers, Sequences, FiniteSets, TLC

VARIABLES
    feature_names_in_,     \* model.feature_names_in_ : sequence of names
    tree_node_structure,   \* model.tree_.__getstate__()['nodes']
    feature_names_lookup,  \* defaultdict: feature index -> name
    node_idx,              \* position of the for loop of line 162
    split_names_lookup,    \* dict: split id -> label
    split_value_lookup,    \* dict: split id -> partition size
    child_parent_lookup,   \* defaultdict: node index -> incoming split id
    all_node_details,      \* list of the records built so far
    data_frame,            \* the records handed to px.sunburst
    pc,                    \* "loop" | "done" | "raised"
    raised                 \* the exception that ended the call, or ""

vars == <<feature_names_in_, tree_node_structure, feature_names_lookup,
          node_idx, split_names_lookup, split_value_lookup,
          child_parent_lookup, all_node_details, data_frame, pc, raised>>

---------------------------------------------------------------------------
(* Bounds of the explored inputs.                                          *)

\* Largest number of splits (non-leaf nodes) of an explored valid tree.
MaxSplits == 2

\* Largest length of an explored arbitrary (possibly malformed) node array.
MaxAnyNodes == 2

\* Number of splits of the explored index-permuted trees.
MaxTreeSplits == 3

---------------------------------------------------------------------------
(* Python primitives.                                                      *)

Digits == <<"0", "1", "2", "3", "4", "5", "6", "7", "8", "9">>

\* str(n) of a non-negative int.
RECURSIVE Str(_)
Str(n) == IF n < 10 THEN Digits[n + 1]
          ELSE Str(n \div 10) \o Digits[(n % 10) + 1]

Abs(x) == IF x < 0 THEN -x ELSE x

\* '{:.2f}'.format(t / 8): the exact value rounded to hundredths, ties to
\* the even hundredth, sign kept, two digits after the point.
Format2f(t) ==
    LET num  == Abs(t) * 100
        q    == num \div 8
        r    == num % 8
        h    == IF r > 4 \/ (r = 4 /\ q % 2 = 1) THEN q + 1 ELSE q
        sign == IF t < 0 THEN "-" ELSE ""
    IN  sign \o Str(h \div 100) \o "." \o Digits[((h % 100) \div 10) + 1]
             \o Digits[(h % 10) + 1]

\* split_name_templates['left_child'].format(feature, threshold)
FormatLeft(feature, threshold) == feature \o " <= " \o Format2f(threshold)

\* split_name_templates['right_child'].format(feature, threshold)
FormatRight(feature, threshold) == feature \o " > " \o Format2f(threshold)

EmptyDict == [k \in {} |-> ""]

\* A default factory that yields None, which format() prints as 'None'.
FeatureNameDefaultNone == "None"

\* The default factories of the two defaultdicts: lambda: ''.
FeatureNameDefault == ""

ChildParentDefault == ""

\* d[k] on a defaultdict: a missing key is inserted with the default.
Touch(d, k, default) == IF k \in DOMAIN d THEN d ELSE (k :> default) @@ d

\* d.update({k1: v1, k2: v2}): the later pair wins on equal keys.
DictUpdate(d, k1, v1, k2, v2) == (k2 :> v2) @@ (k1 :> v1) @@ d

\* d[k] = v
DictSet(d, k, v) == (k :> v) @@ d

\* Indexing a numpy array of length n with i raises IndexError unless
\* -n <= i < n.
InBounds(i, n) == i >= -n /\ i < n

\* The position an in-bounds index i selects: negative indices count from
\* the end.
PyIndex(i, n) == IF i < 0 THEN i + n ELSE i

\* defaultdict(lambda: '', enumerate(model.feature_names_in_))
EnumerateNames(names) == [k \in 0 .. Len(names) - 1 |-> names[k + 1]]

---------------------------------------------------------------------------
(* The scan.                                                               *)

\* The function-local state as one record.
State == [feature_names_lookup |-> feature_names_lookup,
          node_idx             |-> node_idx,
          split_names_lookup   |-> split_names_lookup,
          split_value_lookup   |-> split_value_lookup,
          child_parent_lookup  |-> child_parent_lookup,
          all_node_details     |-> all_node_details,
          data_frame           |-> data_frame,
          pc                   |-> pc,
          raised               |-> raised]

\* The state on entry to the for loop, as a record.
Entry(names) ==
         [feature_names_lookup |-> EnumerateNames(names),
          node_idx             |-> 0,
          split_names_lookup   |-> EmptyDict,
          split_value_lookup   |-> EmptyDict,
          child_parent_lookup  |-> EmptyDict,
          all_node_details     |-> << >>,
          data_frame           |-> << >>,
          pc                   |-> "loop",
          raised               |-> ""]

\* if node_info['left_child'] == -1
IsLeafNode(node_info) == node_info.left_child = -1

\* Ids counted from 1 instead of 0.
NextIdFromOne(snl) == Cardinality(DOMAIN snl) + 1

\* left_idx = len(split_names_lookup)
NextId(snl) == Cardinality(DOMAIN snl)

\* left_idx = str(left_idx)
LeftIdx(len) == Str(len)

\* The right id without the + 1: the id of the left record again.
RightIdxSame(len) == Str(len)

\* right_idx = str(left_idx + 1)
RightIdx(len) == Str(len + 1)

\* Lines 172-186: the feature name is looked up and the two labels stored.
GetSplitNames(st, node_info, left_idx, right_idx) ==
    LET fnl       == Touch(st.feature_names_lookup, node_info.feature,
                           FeatureNameDefault)
        feature   == fnl[node_info.feature]
        threshold == node_info.threshold
    IN  [st EXCEPT
            !.feature_names_lookup = fnl,
            !.split_names_lookup =
                DictUpdate(@, left_idx, FormatLeft(feature, threshold),
                              right_idx, FormatRight(feature, threshold))]

\* The sample count of the splitting node itself for both partitions.
PartitionSizesOwn(nodes, node_info) ==
    <<node_info.n_node_samples, node_info.n_node_samples>>

\* The sizes of the two partitions: n_node_samples of the nodes the child
\* indices select.
PartitionSizes(nodes, node_info) ==
    <<nodes[PyIndex(node_info.left_child, Len(nodes)) + 1].n_node_samples,
      nodes[PyIndex(node_info.right_child, Len(nodes)) + 1].n_node_samples>>

\* Lines 189-196, both child indices in bounds.
GetSplitValues(st, nodes, node_info, left_idx, right_idx) ==
    LET sizes == PartitionSizes(nodes, node_info)
    IN  [st EXCEPT !.split_value_lookup =
                       DictUpdate(@, left_idx, sizes[1], right_idx, sizes[2])]

\* One record of the structured array (lines 200-220).
NodeDetails(st, el, feature) ==
    [parent_id  |-> st.child_parent_lookup[st.node_idx],
     split_id   |-> el,
     split_name |-> st.split_names_lookup[el],
     value      |-> st.split_value_lookup[el],
     colour     |-> feature]

\* Lines 198-220: the two records are appended, left then right.
AppendNodeDetails(st, node_info, left_idx, right_idx) ==
    LET s       == [st EXCEPT !.child_parent_lookup =
                                  Touch(@, st.node_idx, ChildParentDefault)]
        feature == s.feature_names_lookup[node_info.feature]
    IN  [s EXCEPT !.all_node_details =
                      @ \o <<NodeDetails(s, left_idx, feature),
                              NodeDetails(s, right_idx, feature)>>]

\* The two ids recorded under the opposite children.
PopulateChildParentSwapped(st, node_info, left_idx, right_idx) ==
    [st EXCEPT !.child_parent_lookup =
                   DictSet(DictSet(@, node_info.left_child, right_idx),
                           node_info.right_child, left_idx)]

\* Lines 224-225.
PopulateChildParent(st, node_info, left_idx, right_idx) ==
    [st EXCEPT !.child_parent_lookup =
                   DictSet(DictSet(@, node_info.left_child, left_idx),
                           node_info.right_child, right_idx)]

\* The IndexError of line 192 or 194 leaves the function.
RaiseIndexError(st) == [st EXCEPT !.pc = "raised", !.raised = "IndexError"]

\* A variant of the loop body that populates child_parent_lookup before it
\* builds the node's records.
LoopBodyLinkFirst(st, nodes) ==
    LET node_info == nodes[st.node_idx + 1]
        len       == NextId(st.split_names_lookup)
        left_idx  == LeftIdx(len)
        right_idx == RightIdx(len)
    IN
    IF IsLeafNode(node_info)
    THEN [st EXCEPT !.node_idx = @ + 1]
    ELSE
      LET s1 == GetSplitNames(st, node_info, left_idx, right_idx)
      IN
      IF ~InBounds(node_info.left_child, Len(nodes))
         \/ ~InBounds(node_info.right_child, Len(nodes))
      THEN RaiseIndexError(s1)
      ELSE
        LET s2 == GetSplitValues(s1, nodes, node_info, left_idx, right_idx)
            s3 == PopulateChildParent(s2, node_info, left_idx, right_idx)
            s4 == AppendNodeDetails(s3, node_info, left_idx, right_idx)
        IN  [s4 EXCEPT !.node_idx = @ + 1]

\* One iteration of the for loop of line 162 on state st.
LoopBody(st, nodes) ==
    LET node_info == nodes[st.node_idx + 1]
        len       == NextId(st.split_names_lookup)
        left_idx  == LeftIdx(len)
        right_idx == RightIdx(len)
    IN
    IF IsLeafNode(node_info)
    THEN [st EXCEPT !.node_idx = @ + 1]
    ELSE
      LET s1 == GetSplitNames(st, node_info, left_idx, right_idx)
      IN
      IF ~InBounds(node_info.left_child, Len(nodes))
         \/ ~InBounds(node_info.right_child, Len(nodes))
      THEN RaiseIndexError(s1)
      ELSE
        LET s2 == GetSplitValues(s1, nodes, node_info, left_idx, right_idx)
            s3 == AppendNodeDetails(s2, node_info, left_idx, right_idx)
            s4 == PopulateChildParent(s3, node_info, left_idx, right_idx)
        IN  [s4 EXCEPT !.node_idx = @ + 1]

\* Lines 227-253 on state st: np.concatenate raises ValueError on an empty
\* list; otherwise the records go to px.sunburst and the figure is returned.
Concatenate(st) ==
    IF st.all_node_details = << >>
    THEN [st EXCEPT !.pc = "raised", !.raised = "ValueError"]
    ELSE [st EXCEPT !.data_frame = st.all_node_details, !.pc = "done"]

\* The variables take the values of record s.
Becomes(s) ==
    /\ feature_names_lookup' = s.feature_names_lookup
    /\ node_idx' = s.node_idx
    /\ split_names_lookup' = s.split_names_lookup
    /\ split_value_lookup' = s.split_value_lookup
    /\ child_parent_lookup' = s.child_parent_lookup
    /\ all_node_details' = s.all_node_details
    /\ data_frame' = s.data_frame
    /\ pc' = s.pc
    /\ raised' = s.raised

Iterate ==
    /\ pc = "loop"
    /\ node_idx < Len(tree_node_structure)
    /\ Becomes(LoopBody(State, tree_node_structure))
    /\ UNCHANGED <<feature_names_in_, tree_node_structure>>

Finish ==
    /\ pc = "loop"
    /\ node_idx = Len(tree_node_structure)
    /\ Becomes(Concatenate(State))
    /\ UNCHANGED <<feature_names_in_, tree_node_structure>>

Next == Iterate \/ Finish

---------------------------------------------------------------------------
(* The inputs.                                                             *)

TreeNode(l, r, f, t, s) ==
    [left_child |-> l, right_child |-> r, feature |-> f, threshold |-> t,
     n_node_samples |-> s]

\* The feature-name tables explored.
NameTables == {<<"f0", "f1">>}

\* The (feature index, threshold in eighths) pairs explored for a split:
\* 1.5, 10.625 and -0.375; feature 2 has no name in the table.
Splits == {<<0, 12>>, <<1, 85>>, <<2, -3>>}

\* The two assignments of n_node_samples to node indices explored.
SampleSchemes == {"falling", "rising"}
Samples(scheme, i) == IF scheme = "falling" THEN 40 - 3 * i ELSE 7 + 2 * i

\* Parent vectors over n nodes: p[i] is the parent of node i >= 1, and
\* every node has no children or two.  With ordered, a parent comes before
\* its children; without, every node still descends from node 0.
Kids(p, j) == {i \in DOMAIN p : p[i] = j}

RECURSIVE Descends(_, _, _)
Descends(p, i, fuel) ==
    IF i = 0 THEN TRUE
    ELSE IF fuel = 0 THEN FALSE
    ELSE Descends(p, p[i], fuel - 1)

ParentVecs(n, ordered) ==
    {p \in [1 .. n - 1 -> 0 .. n - 1] :
        /\ \A j \in 0 .. n - 1 : Cardinality(Kids(p, j)) \in {0, 2}
        /\ IF ordered THEN \A i \in 1 .. n - 1 : p[i] < i
           ELSE \A i \in 1 .. n - 1 : Descends(p, i, n)}

Min(S) == CHOOSE x \in S : \A y \in S : x <= y
Max(S) == CHOOSE x \in S : \A y \in S : x >= y

\* The node array of the tree with parent vector p: flip[j] puts the
\* larger child index on the left; a leaf carries scikit-learn's
\* children -1 and undefined feature -2 / threshold -2.0.
TreeArray(n, p, flip, split, scheme) ==
    [k \in 1 .. n |->
        LET j == k - 1
            c == Kids(p, j)
        IN  IF c = {} THEN TreeNode(-1, -1, -2, -16, Samples(scheme, j))
            ELSE TreeNode(IF flip[j] THEN Max(c) ELSE Min(c),
                          IF flip[j] THEN Min(c) ELSE Max(c),
                          split[j][1], split[j][2], Samples(scheme, j))]

Internal(n, p) == {j \in 0 .. n - 1 : Kids(p, j) # {}}

\* tree_node_structure is a tree of lo .. hi splits, its splits drawn from
\* splits and its sample counts from one of schemes.
IsTreeInput(lo, hi, ordered, splits, schemes) ==
    \E k \in lo .. hi :
      \E p \in ParentVecs(2 * k + 1, ordered) :
        \E flip \in [Internal(2 * k + 1, p) -> BOOLEAN] :
          \E split \in [Internal(2 * k + 1, p) -> splits] :
            \E scheme \in schemes :
              tree_node_structure =
                  TreeArray(2 * k + 1, p, flip, split, scheme)

\* tree_node_structure is an arbitrary node array of at most maxNodes
\* nodes: any child indices from -1 to its length (which is out of
\* bounds), one split and one sample scheme for the whole array.
IsAnyInput(maxNodes) ==
    \E n \in 0 .. maxNodes :
      \E kids \in [1 .. n -> (-1 .. n) \X (-1 .. n)] :
        \E sp \in Splits :
          \E scheme \in SampleSchemes :
            tree_node_structure =
                [k \in 1 .. n |->
                    TreeNode(kids[k][1], kids[k][2], sp[1], sp[2],
                             Samples(scheme, k - 1))]

\* The state on entry to the for loop (lines 143-161).
Entered ==
    /\ feature_names_in_ \in NameTables
    /\ feature_names_lookup = EnumerateNames(feature_names_in_)
    /\ node_idx = 0
    /\ split_names_lookup = EmptyDict
    /\ split_value_lookup = EmptyDict
    /\ child_parent_lookup = EmptyDict
    /\ all_node_details = << >>
    /\ data_frame = << >>
    /\ pc = "loop"
    /\ raised = ""

\* The call on a tree whose parents come before their children, or on an
\* arbitrary small array.
Init ==
    /\ \/ IsTreeInput(0, MaxSplits, TRUE, Splits, SampleSchemes)
       \/ IsAnyInput(MaxAnyNodes)
    /\ Entered

Spec == Init /\ [][Next]_vars

\* The call on a tree of MaxTreeSplits splits under every numbering of its
\* nodes that keeps the root at index 0.
InitTree ==
    /\ IsTreeInput(MaxTreeSplits, MaxTreeSplits, FALSE, {<<0, 12>>},
                   {"falling"})
    /\ Entered

SpecTree == InitTree /\ [][Next]_vars

\* The whole call as a function of its inputs: the state it ends in.
RECURSIVE RunFrom(_, _)
RunFrom(st, nodes) ==
    IF st.pc # "loop" THEN st
    ELSE IF st.node_idx < Len(nodes) THEN RunFrom(LoopBody(st, nodes), nodes)
    ELSE Concatenate(st)

Run(nodes, names) == RunFrom(Entry(names), nodes)

---------------------------------------------------------------------------
(* Vocabulary of the properties.                                           *)

NodeAt(i) == tree_node_structure[i + 1]

Indices == 0 .. Len(tree_node_structure) - 1

\* The nodes the scan treats as splits.
SplitNodes == {i \in Indices : NodeAt(i).left_child # -1}

ChildrenOf(i) == {NodeAt(i).left_child, NodeAt(i).right_child}

\* The number of splits before node i, and the output positions (from 1)
\* of the two records of split node i.
Rank(i) == Cardinality({j \in SplitNodes : j < i})
LeftPos(i) == 2 * Rank(i) + 1
RightPos(i) == 2 * Rank(i) + 2

\* A valid input tree: the root at index 0, a leaf without children, a
\* split with two distinct in-range children placed after it, and every
\* other node the child of exactly one parent.
ValidTree ==
    /\ Len(tree_node_structure) >= 1
    /\ \A i \in Indices :
         IF NodeAt(i).left_child = -1
         THEN NodeAt(i).right_child = -1
         ELSE /\ ChildrenOf(i) \subseteq Indices
              /\ NodeAt(i).left_child # NodeAt(i).right_child
              /\ \A c \in ChildrenOf(i) : c > i
    /\ \A j \in Indices \ {0} :
         Cardinality({i \in SplitNodes : j \in ChildrenOf(i)}) = 1

ParentOf(j) == CHOOSE i \in SplitNodes : j \in ChildrenOf(i)

\* The split_id of the record that leads into node j: the one its parent
\* emitted for the branch j sits on; the empty string for the root.
IncomingId(j) ==
    IF j = 0 THEN ""
    ELSE LET p == ParentOf(j)
         IN  data_frame[IF NodeAt(p).left_child = j THEN LeftPos(p)
                        ELSE RightPos(p)].split_id

Positions == 1 .. Len(data_frame)

\* What Python prints for the explored thresholds with '{:.2f}':
\* 1.5, 10.625 and -0.375.
Rendered == (12 :> "1.50") @@ (85 :> "10.62") @@ (-3 :> "-0.38")

\* What str() prints for the ids.
Decimal == <<"0", "1", "2", "3", "4", "5", "6", "7", "8", "9", "10", "11",
             "12", "13", "14", "15">>

Named(i) == NodeAt(i).feature \in 0 .. Len(feature_names_in_) - 1

NameOf(i) == IF Named(i) THEN feature_names_in_[NodeAt(i).feature + 1]
             ELSE ""

---------------------------------------------------------------------------
(* C1: on a valid tree, for every split node n the records whose parent_id *)
(* is the split_id of the record leading into n (the empty string for the  *)
(* root) are exactly two, n's own two records, at every depth.             *)
C1_TwoRecordsUnderIncomingEdge ==
    (pc = "done" /\ ValidTree) =>
        \A n \in SplitNodes :
            {i \in Positions : data_frame[i].parent_id = IncomingId(n)}
                = {LeftPos(n), RightPos(n)}

\* A finished valid tree with a split below the root.
C1_Witness ==
    /\ pc = "done"
    /\ ValidTree
    /\ \E n \in SplitNodes \ {0} : data_frame[LeftPos(n)].parent_id # ""

(* C2: on a valid tree no two records of the output share a split_id, and  *)
(* every non-empty parent_id is the split_id of a record of the output.    *)
C2_UniqueIdsNoDanglingParent ==
    (pc = "done" /\ ValidTree) =>
        /\ \A i, j \in Positions :
             i # j => data_frame[i].split_id # data_frame[j].split_id
        /\ \A i \in Positions :
             \/ data_frame[i].parent_id = ""
             \/ \E j \in Positions :
                  data_frame[j].split_id = data_frame[i].parent_id

\* A finished valid tree of two splits: four records, two with a parent.
C2_Witness ==
    /\ pc = "done"
    /\ ValidTree
    /\ Len(data_frame) = 4
    /\ \E i \in Positions : data_frame[i].parent_id # ""

(* C3: on a single leaf root the pass completes without raising and yields *)
(* an empty sequence of records.                                           *)
C3_SingleLeafYieldsEmptyOutput ==
    (Len(tree_node_structure) = 1 /\ NodeAt(0).left_child = -1
        /\ pc # "loop")
    => (pc = "done" /\ raised = "" /\ data_frame = << >>)

(* C4: on a valid tree the output holds two records per split node and     *)
(* none for leaves, grouped by split node in index order, left before      *)
(* right; the left record has label 'F <= T' and the sample count of the   *)
(* left child, the right record 'F > T' and the sample count of the right  *)
(* child, T with two decimals, and both have category F, the feature of    *)
(* the splitting node.  A single split yields two records with empty       *)
(* parent_id.                                                              *)
C4_TwoRecordsPerSplitInOrder ==
    (pc = "done" /\ ValidTree) =>
        /\ Len(data_frame) = 2 * Cardinality(SplitNodes)
        /\ \A n \in SplitNodes :
             LET L == data_frame[LeftPos(n)]
                 R == data_frame[RightPos(n)]
                 T == Rendered[NodeAt(n).threshold]
             IN  /\ L.value = NodeAt(NodeAt(n).left_child).n_node_samples
                 /\ R.value = NodeAt(NodeAt(n).right_child).n_node_samples
                 /\ Named(n) =>
                      /\ L.split_name = NameOf(n) \o " <= " \o T
                      /\ R.split_name = NameOf(n) \o " > " \o T
                      /\ L.colour = NameOf(n)
                      /\ R.colour = NameOf(n)
        /\ SplitNodes = {0} =>
             /\ Len(data_frame) = 2
             /\ data_frame[1].parent_id = ""
             /\ data_frame[2].parent_id = ""

\* A finished valid tree of two splits on different named features, one of
\* them at the threshold 10.625 that '{:.2f}' has to round.
C4_Witness ==
    /\ pc = "done"
    /\ ValidTree
    /\ \E n, m \in SplitNodes :
         /\ Named(n) /\ Named(m)
         /\ NodeAt(n).feature # NodeAt(m).feature
         /\ NodeAt(n).threshold = 85
         /\ m \in ChildrenOf(n)

\* Some node with a child has children that are not both valid, untaken
\* indices: out of the array, one of them -1, the same index twice, or an
\* index that another parent has as a child too.
Malformed ==
    \E i \in Indices :
        /\ ChildrenOf(i) # {-1}
        /\ \/ ~(ChildrenOf(i) \subseteq Indices)
           \/ NodeAt(i).left_child = NodeAt(i).right_child
           \/ \E k \in Indices \ {i} :
                ChildrenOf(k) # {-1} /\ ChildrenOf(k) \cap ChildrenOf(i) # {}

(* C5: when some node's children are not both valid, untaken indices the   *)
(* pass fails with an error and hands no records to the renderer.          *)
C5_MalformedChildrenRaise ==
    (Malformed /\ pc # "loop") => (pc = "raised" /\ data_frame = << >>)

\* A split node has a lower index than its parent.
SplitBeforeParent ==
    \E k, p \in SplitNodes : k \in ChildrenOf(p) /\ k < p

(* C6: when a split node sits at a lower index than its parent the pass    *)
(* raises instead of completing.                                           *)
C6_SplitBeforeParentRaises ==
    (SplitBeforeParent /\ pc # "loop") => pc = "raised"

\* How the call ends on a tree that is a single leaf root.
SingleLeafOutcome ==
    LET end == Run(<<TreeNode(-1, -1, -2, -16, 1)>>, feature_names_in_)
    IN  <<end.pc, end.raised, end.data_frame>>

(* C7: on an empty node sequence the pass fails, and this outcome differs  *)
(* from the outcome of a single leaf root.                                 *)
C7_EmptyInputFailsDistinctly ==
    (Len(tree_node_structure) = 0 /\ pc # "loop") =>
        /\ pc = "raised"
        /\ <<pc, raised, data_frame>> # SingleLeafOutcome

\* The call on the same nodes with a name for feature index 2, the one
\* that feature_names_in_ lacks.
WithNamePresent == Run(tree_node_structure, Append(feature_names_in_, "f2"))

(* C8: a split on a feature index without a name does not make the pass    *)
(* fail: it ends as it does with the name present, the node's two records  *)
(* have the empty string as category and as the feature segment of the     *)
(* labels ' <= T' and ' > T', and every other record is the same as with   *)
(* the name present.                                                       *)
C8_MissingFeatureNameIsEmpty ==
    (pc # "loop") =>
        /\ WithNamePresent.pc = pc
        /\ WithNamePresent.raised = raised
        /\ Len(WithNamePresent.data_frame) = Len(data_frame)
        /\ pc = "done" =>
             \A n \in SplitNodes :
               LET L  == data_frame[LeftPos(n)]
                   R  == data_frame[RightPos(n)]
                   L2 == WithNamePresent.data_frame[LeftPos(n)]
                   R2 == WithNamePresent.data_frame[RightPos(n)]
                   T  == Rendered[NodeAt(n).threshold]
               IN  IF Named(n) THEN L = L2 /\ R = R2
                   ELSE /\ L = [L2 EXCEPT !.split_name = " <= " \o T,
                                          !.colour = ""]
                        /\ R = [R2 EXCEPT !.split_name = " > " \o T,
                                          !.colour = ""]
                        /\ L2.colour = "f2"
                        /\ R2.colour = "f2"

\* A finished scan with a split on the unnamed feature and a split on a
\* named one.
C8_Witness ==
    /\ pc = "done"
    /\ \E n, m \in SplitNodes : ~Named(n) /\ Named(m)

\* The nodes whose iteration has begun.
Visited ==
    {j \in Indices :
        j < node_idx \/ (j = node_idx /\ raised = "IndexError")}

(* C9: the id counter starts at 0 and grows by 2 per split node and by 0   *)
(* per leaf: after every step the ids minted are the decimal strings of    *)
(* 0 .. 2k-1, k the number of split nodes visited; the record at output    *)
(* position i (from 0) has split_id str(i), the left record of a split the *)
(* even id and the right record the next odd one.                          *)
C9_IdsDenseInVisitOrder ==
    LET k == Cardinality(SplitNodes \cap Visited)
    IN  /\ Cardinality(DOMAIN split_names_lookup) = 2 * k
        /\ DOMAIN split_names_lookup = {Decimal[i + 1] : i \in 0 .. 2 * k - 1}
        /\ \A i \in 1 .. Len(all_node_details) :
             all_node_details[i].split_id = Decimal[i]
        /\ \A n \in SplitNodes :
             n < node_idx =>
               /\ all_node_details[LeftPos(n)].split_id = Decimal[2 * Rank(n) + 1]
               /\ all_node_details[LeftPos(n)].split_name
                    = NameOf(n) \o " <= " \o Rendered[NodeAt(n).threshold]
               /\ all_node_details[RightPos(n)].split_id = Decimal[2 * Rank(n) + 2]
               /\ all_node_details[RightPos(n)].split_name
                    = NameOf(n) \o " > " \o Rendered[NodeAt(n).threshold]

\* The scan is under way, has passed two splits and a leaf, and still has
\* a node to visit.
C9_Witness ==
    /\ pc = "loop"
    /\ node_idx < Len(tree_node_structure)
    /\ Len(all_node_details) = 4
    /\ \E j \in Indices : j < node_idx /\ j \notin SplitNodes

(* C10: on any node array on which the scan completes, every record's      *)
(* parent_id is empty or the split_id of a record strictly earlier in the  *)
(* output.                                                                 *)
C10_ParentIsEarlierRecord ==
    pc = "done" =>
        \A i \in Positions :
            \/ data_frame[i].parent_id = ""
            \/ \E j \in 1 .. i - 1 :
                 data_frame[j].split_id = data_frame[i].parent_id

\* A finished scan of an array in which a split node lists itself or an
\* earlier node as a child, with a record that has a parent.
C10_Witness ==
    /\ pc = "done"
    /\ \E n \in SplitNodes : \E c \in ChildrenOf(n) : c >= 0 /\ c <= n
    /\ \E i \in Positions : data_frame[i].parent_id # ""

=============================================================================
